---- MODULE Spec2Model ----
(***************************************************************************)
(* Model of helper/mouse_data.py: class MouseData.                         *)
(*                                                                         *)
(* The poll loop (start_reading) runs in its own thread and writes the     *)
(* Data Layer variants one at a time; every write of a variant is one      *)
(* step, so that what a concurrent reader (on_read) can observe is exactly *)
(* the set of reachable states.  The USB library is the environment: each  *)
(* USB call returns or raises, chosen nondeterministically.                *)
(*                                                                         *)
(* Axis values are kept in units of 1/128: the float (b/128)-1 is stored   *)
(* as the integer b-128 (every such value is exact in float32).            *)
(*                                                                         *)
(* Specifications: Spec and FairSpec (the poll loop), DecodeSpec (one       *)
(* decode pass over every byte value), CallbackSpec (on_read and on_write   *)
(* interleaved with the read and decode steps), StartSpec (overlapping      *)
(* calls of start_reading_threaded).                                        *)
(***************************************************************************)
EXTENDS Integers, Sequences, FiniteSets, TLC

VARIABLES
    thread,        \* _reader_thread: "none" | "alive" | "dead"
    pc,            \* position of the poll thread inside start_reading
    ret,           \* where the running _set_safe_state call returns to
    idx,           \* index of the next write in the running series of writes
    node,          \* the Data Layer variants: field name -> value
    full_data,     \* the full_data variant
    backend,       \* local backend: "unresolved" | "ok" | "None"
    dev,           \* local dev: "None" | "c21f" | "c219"
    endpoint,      \* local endpoint: "None" | "ep"
    data,          \* local data: the report being decoded (<<>> before any)
    delay,         \* argument of the running time.sleep, in ms (0: not sleeping)
    env,           \* environment mode: "chaos" | "acquirable" | "healthy"
    claimed,       \* history: the interface of dev is claimed by this process
    lastEvent,     \* history: last outcome the loop met: [op, out, errno]
    readOk,        \* history: a report was read since the last acquisition
    prevData,      \* history: the report whose decode was published when data
                   \* was read (<<>>: the neutral state was published)
    cleanupCalls,  \* history: calls of _cleanup_usb on the current handle
    backendLogged, \* history: "libusb backend not found" records logged by
                   \* the running start_reading
    everFound,     \* history: usb.core.find returned a device since
                   \* start_reading began
    sleeps,        \* history: time.sleep calls completed since the last failed
                   \* search or fault
    attempt,       \* history: the running acquisition attempt: what the two
                   \* searches would return, the searches made, the steps
                   \* that failed without ending it
    cleanup,       \* history: outcomes of the two steps of the _cleanup_usb
                   \* call of the running fault path
    reply,         \* what the last Data Layer callback passed to cb
    callPc,        \* position of each caller inside start_reading_threaded
    threads,       \* the Thread objects created by start_reading_threaded
    reader_thread  \* _reader_thread as the callers of StartSpec see it:
                   \* 0 (None) or the id of a Thread object

\* the variables of the callers of start_reading_threaded and of the callbacks
callVars == <<reply, callPc, threads, reader_thread>>

\* the history variables of the retry logic
histVars == <<backendLogged, everFound, sleeps>>

\* the history variables of the acquisition attempt and of the fault path
attemptVars == <<attempt, cleanup>>

vars == <<thread, pc, ret, idx, node, full_data, backend, dev, endpoint, data,
          delay, env, claimed, lastEvent, readOk, prevData, cleanupCalls,
          backendLogged, everFound, sleeps, attempt, cleanup,
          reply, callPc, threads, reader_thread>>

----------------------------------------------------------------------------
(* Bounds of the model *)

\* number of sample reports the device can deliver in Spec
NumSamples == 5

\* number of concurrent callers of start_reading_threaded in StartSpec
MaxCallers == 2

\* number of Thread objects the callers of StartSpec can create
MaxThreads == 3

\* number of bytes a report of DecodeSpec can have beyond the 13 decoded ones
MaxExtra == 1

----------------------------------------------------------------------------
(* Fields *)

Buttons == {"left_button", "right_button", "left_button_bottom",
            "right_button_bottom", "a_button", "b_button", "x_button",
            "y_button", "up_cross_button", "down_cross_button",
            "left_cross_button", "right_cross_button"}

Axes == {"l_joystick_x", "l_joystick_y", "r_joystick_x", "r_joystick_y"}

Fields == {"controller_connected"} \cup Buttons \cup Axes

\* value written by set_bool8(False) / set_float32(0.0) for a field
Neutral(f) == IF f \in Axes THEN 0 ELSE FALSE

\* __init__: every variant at its initial value
InitNode == [f \in Fields |-> Neutral(f)]

\* SafeOrder as it would be if the four axis resets were left out
SafeOrderButtonsOnly ==
    <<"controller_connected",
      "left_button", "right_button", "left_button_bottom",
      "right_button_bottom",
      "a_button", "b_button", "x_button", "y_button",
      "up_cross_button", "down_cross_button", "left_cross_button",
      "right_cross_button">>

\* SafeOrder as it would be if controller_connected were written last
SafeOrderFlagLast ==
    <<"left_button", "right_button", "left_button_bottom",
      "right_button_bottom",
      "a_button", "b_button", "x_button", "y_button",
      "up_cross_button", "down_cross_button", "left_cross_button",
      "right_cross_button",
      "l_joystick_x", "l_joystick_y", "r_joystick_x", "r_joystick_y",
      "controller_connected">>

\* order of the writes of _set_safe_state
SafeOrder == <<"controller_connected",
               "left_button", "right_button", "left_button_bottom",
               "right_button_bottom",
               "a_button", "b_button", "x_button", "y_button",
               "up_cross_button", "down_cross_button", "left_cross_button",
               "right_cross_button",
               "l_joystick_x", "l_joystick_y", "r_joystick_x", "r_joystick_y">>

\* ResetOrder as it would be if the reset of y_button were left out
ResetOrderWithoutY ==
    <<"left_button", "right_button", "right_button_bottom",
      "left_button_bottom", "b_button", "x_button",
      "a_button", "up_cross_button", "down_cross_button",
      "left_cross_button", "right_cross_button">>

\* order of the resets before a decode
ResetOrder == <<"left_button", "right_button", "right_button_bottom",
                "left_button_bottom", "b_button", "y_button", "x_button",
                "a_button", "up_cross_button", "down_cross_button",
                "left_cross_button", "right_cross_button">>

\* ButtonTable as it would be with the masks of a_button and b_button exchanged
ButtonTableSwappedAB ==
    << [f |-> "left_button",         off |-> 3, mask |-> 1],
       [f |-> "right_button",        off |-> 3, mask |-> 2],
       [f |-> "b_button",            off |-> 3, mask |-> 16],
       [f |-> "y_button",            off |-> 3, mask |-> 128],
       [f |-> "x_button",            off |-> 3, mask |-> 64],
       [f |-> "a_button",            off |-> 3, mask |-> 32],
       [f |-> "left_button_bottom",  off |-> 4, mask |-> 31],
       [f |-> "right_button_bottom", off |-> 5, mask |-> 29],
       [f |-> "up_cross_button",     off |-> 2, mask |-> 1],
       [f |-> "down_cross_button",   off |-> 2, mask |-> 2],
       [f |-> "left_cross_button",   off |-> 2, mask |-> 4],
       [f |-> "right_cross_button",  off |-> 2, mask |-> 8] >>

\* the bit tests of the decode, in program order: field, offset, mask
ButtonTable == << [f |-> "left_button",         off |-> 3, mask |-> 1],
                  [f |-> "right_button",        off |-> 3, mask |-> 2],
                  [f |-> "b_button",            off |-> 3, mask |-> 32],
                  [f |-> "y_button",            off |-> 3, mask |-> 128],
                  [f |-> "x_button",            off |-> 3, mask |-> 64],
                  [f |-> "a_button",            off |-> 3, mask |-> 16],
                  [f |-> "left_button_bottom",  off |-> 4, mask |-> 31],
                  [f |-> "right_button_bottom", off |-> 5, mask |-> 29],
                  [f |-> "up_cross_button",     off |-> 2, mask |-> 1],
                  [f |-> "down_cross_button",   off |-> 2, mask |-> 2],
                  [f |-> "left_cross_button",   off |-> 2, mask |-> 4],
                  [f |-> "right_cross_button",  off |-> 2, mask |-> 8] >>

\* the axis decodes, in program order: field, offset
AxisTable == << [f |-> "l_joystick_x", off |-> 6],
                [f |-> "l_joystick_y", off |-> 8],
                [f |-> "r_joystick_x", off |-> 10],
                [f |-> "r_joystick_y", off |-> 12] >>

----------------------------------------------------------------------------
(* Pure helpers of the decode *)

\* Python's x & y on non-negative integers
RECURSIVE BitAnd(_, _)
BitAnd(x, y) ==
    IF x = 0 \/ y = 0 THEN 0
    ELSE (x % 2) * (y % 2) + 2 * BitAnd(x \div 2, y \div 2)

\* data[off] of a Python sequence (0-based); HasIndex is false where it raises
HasIndex(d, off) == off < Len(d)
Byte(d, off) == d[off + 1]

\* AxisScaled as it would be if "/" were the integer division
AxisScaledFloorDiv(b) == ((b \div 128) - 1) * 128

\* (int(b)/128)-1 in units of 1/128
AxisScaled(b) == b - 128

\* one reset write
ResetStep(n, i) == [n EXCEPT ![ResetOrder[i]] = FALSE]

\* ButtonStep as it would be if the test were "(byte & mask) == mask"
ButtonStepAllBits(n, d, i) ==
    LET e == ButtonTable[i] IN
    IF BitAnd(Byte(d, e.off), e.mask) = e.mask THEN [n EXCEPT ![e.f] = TRUE] ELSE n

\* one "if (byte & mask): field.set_bool8(True)"
ButtonStep(n, d, i) ==
    LET e == ButtonTable[i] IN
    IF BitAnd(Byte(d, e.off), e.mask) # 0 THEN [n EXCEPT ![e.f] = TRUE] ELSE n

\* one "field.set_float32(float((int(data[off])/128)-1))"
AxisStep(n, d, i) ==
    LET e == AxisTable[i] IN [n EXCEPT ![e.f] = AxisScaled(Byte(d, e.off))]

RECURSIVE ResetFrom(_, _)
ResetFrom(n, i) ==
    IF i > Len(ResetOrder) THEN n ELSE ResetFrom(ResetStep(n, i), i + 1)

RECURSIVE ButtonsFrom(_, _, _)
ButtonsFrom(n, d, i) ==
    IF i > Len(ButtonTable) THEN n ELSE ButtonsFrom(ButtonStep(n, d, i), d, i + 1)

RECURSIVE AxesFrom(_, _, _)
AxesFrom(n, d, i) ==
    IF i > Len(AxisTable) THEN n ELSE AxesFrom(AxisStep(n, d, i), d, i + 1)

\* the whole body of the try block after a successful read of d (Len(d) >= 13)
DecodeReport(n, d) == AxesFrom(ButtonsFrom(ResetFrom(n, 1), d, 1), d, 1)

\* SafeStep as it would be if the line of right_button_bottom wrote
\* left_button_bottom a second time
SafeStepCopyPaste(n, i) ==
    LET f == IF SafeOrder[i] = "right_button_bottom"
             THEN "left_button_bottom" ELSE SafeOrder[i]
    IN [n EXCEPT ![f] = Neutral(f)]

\* one write of _set_safe_state
SafeStep(n, i) == [n EXCEPT ![SafeOrder[i]] = Neutral(SafeOrder[i])]

RECURSIVE SafeFrom(_, _)
SafeFrom(n, i) ==
    IF i > Len(SafeOrder) THEN n ELSE SafeFrom(SafeStep(n, i), i + 1)

\* the whole of _set_safe_state
SetSafeState(n) == SafeFrom(n, 1)

----------------------------------------------------------------------------
(* Classification of a caught exception: e = [type, errno], errno -1 = none *)

IsUSBError(e) == e.type = "USBError"
\* IsTimeout as it would be with the errno of EAGAIN in place of ETIMEDOUT
IsTimeoutWrongErrno(e) == e.errno = 11

IsTimeout(e) == e.errno = 110
IsDisconnect(e) == e.errno \in {19, 5}

\* Classify as it would be if the errno were tested before the exception type
ClassifyErrnoFirst(e) ==
    IF IsTimeout(e) THEN "timeout"
    ELSE IF IsDisconnect(e) THEN "disconnect"
    ELSE IF IsUSBError(e) THEN "usb error"
    ELSE "unexpected"

\* the outcome the except clauses select for exception e
Classify(e) ==
    IF IsUSBError(e)
    THEN IF IsTimeout(e) THEN "timeout"
         ELSE IF IsDisconnect(e) THEN "disconnect"
         ELSE "usb error"
    ELSE "unexpected"

----------------------------------------------------------------------------
(* The environment: what the device can deliver *)

SampleReports ==
    << <<0, 0, 0, 33, 0, 0, 192, 0, 64, 0, 128, 0, 128>>,
       <<1, 2, 15, 243, 31, 29, 255, 7, 0, 9, 128, 11, 1>>,
       <<0, 0, 0, 0, 0, 0, 0, 0, 0, 0, 0, 0, 0>>,
       <<0, 0, 1, 1, 1, 1, 200, 0, 200>>,
       <<0, 0, 1, 1, 1>>,
       <<9, 9, 5, 144, 0, 2, 128, 0, 128, 0, 128, 0, 128, 99>>,
       <<0, 0, 0>> >>

Min(a, b) == IF a < b THEN a ELSE b

\* reports cut short: the prefixes of every length below 13 of the sample
\* whose bytes set every button and move every axis
ShortReports == {SubSeq(SampleReports[2], 1, k) : k \in 0..12}

Reports ==
    {SampleReports[i] : i \in 1..Min(NumSamples, Len(SampleReports))}
        \cup ShortReports

WellFormed(d) == Len(d) >= 13

\* an outcome met by the loop: the operation, what came of it, and the errno
\* of a raised USBError (-1: none)
Ev(op, out, errno) == [op |-> op, out |-> out, errno |-> errno]

\* the exception as the loop records it
Raised(op, e) == Ev(op, e.type, e.errno)

\* exceptions a USB read can raise
ReadFaults == {[type |-> "USBError", errno |-> 110],
               [type |-> "USBError", errno |-> 19],
               [type |-> "USBError", errno |-> 5],
               [type |-> "USBError", errno |-> 32],
               [type |-> "USBError", errno |-> -1],
               [type |-> "Exception", errno |-> 110],
               [type |-> "Exception", errno |-> -1]}

\* in modes "acquirable" and "healthy" the device is found and can be claimed
Acquirable == env \in {"acquirable", "healthy"}

\* outcomes of usb.core.find for one product id
FindOutcomes(id) == IF Acquirable THEN {id, "None"} ELSE {id, "None", "raise"}

\* outcomes of an acquisition step that the environment mode constrains
StepOutcomes == IF Acquirable THEN {"ok"} ELSE {"ok", "raise"}

\* outcomes of any other USB call
AnyOutcome == {"ok", "raise"}

----------------------------------------------------------------------------
(* Initial state: the object after __init__ *)

Callers == 1..MaxCallers
ThreadIds == 1..MaxThreads

\* no callback has answered yet
NoReply ==
    [op |-> "none", address |-> "", payload |-> "None", result |-> "none",
     value |-> "None"]

\* no call of start_reading_threaded is running, no Thread object exists, no
\* callback has run
\* no acquisition attempt is running
NoAttempt == [present |-> <<"None", "None">>, calls |-> 0, failed |-> {}]

\* no _cleanup_usb call was made on the running fault path
NoCleanup == [release |-> "none", dispose |-> "none"]

CallInit ==
    /\ reply = NoReply
    /\ callPc = [c \in Callers |-> "idle"]
    /\ threads = [t \in ThreadIds |-> "unborn"]
    /\ reader_thread = 0

Init ==
    /\ CallInit
    /\ backendLogged = 0
    /\ everFound = FALSE
    /\ sleeps = 0
    /\ attempt = NoAttempt
    /\ cleanup = NoCleanup
    /\ thread = "none"
    /\ pc = "idle"
    /\ ret = "none"
    /\ idx = 0
    /\ node = InitNode
    /\ full_data = "No data available"
    /\ backend = "unresolved"
    /\ dev = "None"
    /\ endpoint = "None"
    /\ data = <<>>
    /\ delay = 0
    /\ env \in {"chaos", "acquirable", "healthy"}
    /\ claimed = FALSE
    /\ lastEvent = Ev("none", "none", -1)
    /\ readOk = FALSE
    /\ prevData = <<>>
    /\ cleanupCalls = 0

----------------------------------------------------------------------------
(* Program constants *)

\* time.sleep(5) in the initial connect loop, in ms
LongDelay == 5000

\* time.sleep(0.2) on every later retry, in ms
ShortDelay == 200

----------------------------------------------------------------------------
(* The poll thread *)

\* FindResult as it would be if the wired pair were searched first
FindResultWiredFirst(r1, r2) ==
    IF r2 = "raise" THEN "raise"
    ELSE IF r2 # "None" THEN r2
    ELSE r1

\* result of "dev = find(c21f); if not dev: dev = find(c219)" for the outcomes
\* r1, r2 of the two searches ("raise" when a search that is made raises)
FindResult(r1, r2) ==
    IF r1 = "raise" THEN "raise"
    ELSE IF r1 # "None" THEN r1
    ELSE r2

\* number of usb.core.find calls made when the first one has outcome r1: the
\* second search is made only "if not dev"
FindCalls(r1) == IF r1 = "None" THEN 2 ELSE 1

\* the pairs of search outcomes the environment can produce
FindPairs ==
    {p \in FindOutcomes("c21f") \X FindOutcomes("c219") :
        Acquirable => FindResult(p[1], p[2]) # "None"}

\* start_reading_threaded: start the poll thread unless one is alive; the new
\* thread begins start_reading with _set_safe_state("starting...")
StartReadingThreaded ==
    /\ thread # "alive"
    /\ thread' = "alive"
    /\ pc' = "safe"
    /\ ret' = "backend"
    /\ idx' = 1
    /\ backend' = "unresolved"
    /\ dev' = "None"
    /\ endpoint' = "None"
    /\ data' = <<>>
    /\ delay' = 0
    /\ claimed' = FALSE
    /\ lastEvent' = Ev("none", "none", -1)
    /\ readOk' = FALSE
    /\ cleanupCalls' = 0
    /\ prevData' = <<>>
    /\ backendLogged' = 0
    /\ everFound' = FALSE
    /\ sleeps' = 0
    /\ UNCHANGED <<node, full_data, env>>
    /\ attempt' = NoAttempt
    /\ cleanup' = NoCleanup
    /\ UNCHANGED callVars

\* one write of _set_safe_state; after the last one the call returns
SafeStateStep ==
    /\ thread = "alive"
    /\ pc = "safe"
    /\ node' = SafeStep(node, idx)
    /\ IF idx = Len(SafeOrder)
       THEN pc' = ret /\ idx' = 0 /\ ret' = "none"
       ELSE pc' = pc /\ idx' = idx + 1 /\ ret' = ret
    /\ UNCHANGED <<thread, full_data, backend, dev, endpoint, data, delay, env,
                   claimed, lastEvent, readOk, prevData, cleanupCalls>>
    /\ UNCHANGED <<callVars, histVars, attemptVars>>

\* GetBackend as it would be if start_reading went on without a backend
GetBackendIgnoresNone ==
    /\ thread = "alive"
    /\ pc = "backend"
    /\ \E b \in {"ok", "None"} :
        /\ backend' = b
        /\ pc' = "init_find" /\ ret' = ret /\ idx' = idx
    /\ UNCHANGED <<thread, node, full_data, dev, endpoint, data, delay, env,
                   claimed, lastEvent, readOk, prevData, cleanupCalls>>
    /\ UNCHANGED <<callVars, histVars, attemptVars>>

\* usb.backend.libusb1.get_backend; None leads to the second _set_safe_state
GetBackend ==
    /\ thread = "alive"
    /\ pc = "backend"
    /\ \E b \in {"ok", "None"} :
        /\ backend' = b
        /\ IF b = "None"
           THEN pc' = "safe" /\ ret' = "return" /\ idx' = 1
           ELSE pc' = "init_find" /\ ret' = ret /\ idx' = idx
    /\ UNCHANGED <<thread, node, full_data, dev, endpoint, data, delay, env,
                   claimed, lastEvent, readOk, prevData, cleanupCalls>>
    /\ UNCHANGED <<callVars, histVars, attemptVars>>

\* logger.error("libusb backend not found"); return
ReturnNoBackend ==
    /\ thread = "alive"
    /\ pc = "return"
    /\ thread' = "dead"
    /\ pc' = "returned"
    /\ backendLogged' = backendLogged + 1
    /\ UNCHANGED <<ret, idx, node, full_data, backend, dev, endpoint, data,
                   delay, env, claimed, lastEvent, readOk, prevData,
                   cleanupCalls, everFound, sleeps>>
    /\ UNCHANGED <<callVars, attemptVars>>

\* one pass of the initial connect loop; a raising find is not caught
InitialFind ==
    /\ thread = "alive"
    /\ pc = "init_find"
    /\ \E p \in FindPairs :
        LET r == FindResult(p[1], p[2]) IN
        /\ attempt' = [present |-> p, calls |-> FindCalls(p[1]), failed |-> {}]
        /\ IF r = "raise"
           THEN /\ thread' = "dead"
                /\ pc' = "raised"
                /\ UNCHANGED <<dev, delay, lastEvent, everFound, sleeps>>
           ELSE IF r = "None"
           THEN /\ pc' = "sleep"
                /\ delay' = LongDelay
                /\ lastEvent' = Ev("find", "absent", -1)
                /\ sleeps' = 0
                /\ UNCHANGED <<thread, dev, everFound>>
           ELSE /\ dev' = r
                /\ pc' = "init_endpoint"
                /\ lastEvent' = Ev("find", "found", -1)
                /\ everFound' = TRUE
                /\ UNCHANGED <<thread, delay, sleeps>>
    /\ UNCHANGED <<ret, idx, node, full_data, backend, endpoint, data, env,
                   claimed, readOk, prevData, cleanupCalls, backendLogged>>
    /\ UNCHANGED <<callVars, cleanup>>

\* time.sleep returns; after the long sleep the initial loop goes on, after
\* the short one the endless loop
Sleep ==
    /\ thread = "alive"
    /\ pc = "sleep"
    /\ pc' = IF delay = LongDelay THEN "init_find" ELSE "loop"
    /\ delay' = 0
    /\ sleeps' = sleeps + 1
    /\ UNCHANGED <<thread, ret, idx, node, full_data, backend, dev, endpoint,
                   data, env, claimed, lastEvent, readOk, prevData,
                   cleanupCalls, backendLogged, everFound>>
    /\ attempt' = NoAttempt
    /\ cleanup' = NoCleanup
    /\ UNCHANGED callVars

\* endpoint = dev[0].interfaces()[0].endpoints()[0]; a failure is only logged
InitialEndpoint ==
    /\ thread = "alive"
    /\ pc = "init_endpoint"
    /\ \E o \in StepOutcomes :
        endpoint' = IF o = "ok" THEN "ep" ELSE endpoint
    /\ pc' = "init_reset"
    /\ UNCHANGED <<thread, ret, idx, node, full_data, backend, dev, data,
                   delay, env, claimed, lastEvent, readOk, prevData,
                   cleanupCalls>>
    /\ UNCHANGED <<callVars, histVars, attemptVars>>

\* dev.reset(); a failure is only logged
InitialReset ==
    /\ thread = "alive"
    /\ pc = "init_reset"
    /\ \E o \in AnyOutcome :
        /\ pc' = "init_kernel"
        /\ attempt' = [attempt EXCEPT !.failed =
                IF o = "raise" THEN @ \cup {"reset"} ELSE @]
    /\ UNCHANGED <<thread, ret, idx, node, full_data, backend, dev, endpoint,
                   data, delay, env, claimed, lastEvent, readOk, prevData,
                   cleanupCalls>>
    /\ UNCHANGED <<callVars, histVars, cleanup>>

\* InitialKernelDriver as it would be without the outer try: a failure of the
\* kernel-driver check ends the thread
InitialKernelDriverUncaught ==
    /\ thread = "alive"
    /\ pc = "init_kernel"
    /\ \E active \in {"True", "False", "raise"}, detach \in AnyOutcome :
        /\ pc' = IF active = "raise" THEN "raised" ELSE "init_claim"
        /\ thread' = IF active = "raise" THEN "dead" ELSE "alive"
        /\ attempt' = [attempt EXCEPT !.failed =
                IF active = "raise" THEN @ \cup {"check"}
                ELSE IF active = "True" /\ detach = "raise"
                THEN @ \cup {"detach"}
                ELSE @]
    /\ UNCHANGED <<ret, idx, node, full_data, backend, dev, endpoint,
                   data, delay, env, claimed, lastEvent, readOk, prevData,
                   cleanupCalls>>
    /\ UNCHANGED <<callVars, histVars, cleanup>>

\* is_kernel_driver_active and detach_kernel_driver; failures are only logged
InitialKernelDriver ==
    /\ thread = "alive"
    /\ pc = "init_kernel"
    /\ \E active \in {"True", "False", "raise"}, detach \in AnyOutcome :
        /\ pc' = "init_claim"
        /\ attempt' = [attempt EXCEPT !.failed =
                IF active = "raise" THEN @ \cup {"check"}
                ELSE IF active = "True" /\ detach = "raise"
                THEN @ \cup {"detach"}
                ELSE @]
    /\ UNCHANGED <<thread, ret, idx, node, full_data, backend, dev, endpoint,
                   data, delay, env, claimed, lastEvent, readOk, prevData,
                   cleanupCalls>>
    /\ UNCHANGED <<callVars, histVars, cleanup>>

\* usb.util.claim_interface; a failure is only logged
InitialClaim ==
    /\ thread = "alive"
    /\ pc = "init_claim"
    /\ \E o \in StepOutcomes : claimed' = (o = "ok")
    /\ pc' = "init_connected"
    /\ UNCHANGED <<thread, ret, idx, node, full_data, backend, dev, endpoint,
                   data, delay, env, lastEvent, readOk, prevData,
                   cleanupCalls>>
    /\ UNCHANGED <<callVars, histVars, attemptVars>>

\* self.controller_connected.set_bool8(True) before the endless loop
InitialConnected ==
    /\ thread = "alive"
    /\ pc = "init_connected"
    /\ node' = [node EXCEPT !["controller_connected"] = TRUE]
    /\ pc' = "loop"
    /\ UNCHANGED <<thread, ret, idx, full_data, backend, dev, endpoint, data,
                   delay, env, claimed, lastEvent, readOk, prevData,
                   cleanupCalls>>
    /\ UNCHANGED <<callVars, histVars, attemptVars>>

----------------------------------------------------------------------------
(* The endless loop: reconnect branch (dev is None) *)

\* the two searches of the reconnect branch; a raising find is not caught
ReconnectFind ==
    /\ thread = "alive"
    /\ pc = "loop"
    /\ dev = "None"
    /\ \E p \in FindPairs :
        LET r == FindResult(p[1], p[2]) IN
        /\ attempt' = [present |-> p, calls |-> FindCalls(p[1]), failed |-> {}]
        /\ IF r = "raise"
           THEN /\ thread' = "dead"
                /\ pc' = "raised"
                /\ UNCHANGED <<dev, delay, lastEvent, cleanupCalls, everFound,
                               sleeps>>
           ELSE IF r = "None"
           THEN /\ pc' = "sleep"
                /\ delay' = ShortDelay
                /\ lastEvent' = Ev("find", "absent", -1)
                /\ sleeps' = 0
                /\ UNCHANGED <<thread, dev, cleanupCalls, everFound>>
           ELSE /\ dev' = r
                /\ pc' = "re_reset"
                /\ lastEvent' = Ev("find", "found", -1)
                /\ cleanupCalls' = 0
                /\ everFound' = TRUE
                /\ UNCHANGED <<thread, delay, sleeps>>
    /\ UNCHANGED <<ret, idx, node, full_data, backend, endpoint, data, env,
                   claimed, readOk, prevData, backendLogged>>
    /\ UNCHANGED <<callVars, cleanup>>

\* dev.reset() after the device was found again; a failure is only logged
ReconnectReset ==
    /\ thread = "alive"
    /\ pc = "re_reset"
    /\ \E o \in AnyOutcome :
        /\ pc' = "re_endpoint"
        /\ attempt' = [attempt EXCEPT !.failed =
                IF o = "raise" THEN @ \cup {"reset"} ELSE @]
    /\ UNCHANGED <<thread, ret, idx, node, full_data, backend, dev, endpoint,
                   data, delay, env, claimed, lastEvent, readOk, prevData,
                   cleanupCalls>>
    /\ UNCHANGED <<callVars, histVars, cleanup>>

\* EnterFault as it would be if the fault path went to _cleanup_usb without
\* calling _set_safe_state
EnterFaultWithoutSafeState(event) ==
    /\ lastEvent' = event
    /\ pc' = "cleanup"
    /\ ret' = ret
    /\ idx' = 0
    /\ sleeps' = 0

\* entry of a fault path: _set_safe_state, then _cleanup_usb
EnterFault(event) ==
    /\ lastEvent' = event
    /\ pc' = "safe"
    /\ ret' = "cleanup"
    /\ idx' = 1
    /\ sleeps' = 0

\* the endpoint lookup of the reconnect branch; a failure starts a fault path
ReconnectEndpoint ==
    /\ thread = "alive"
    /\ pc = "re_endpoint"
    /\ \E o \in StepOutcomes :
        IF o = "ok"
        THEN /\ endpoint' = "ep"
             /\ pc' = "re_kernel"
             /\ UNCHANGED <<ret, idx, lastEvent, sleeps>>
        ELSE /\ EnterFault(Ev("endpoint", "Exception", -1))
             /\ UNCHANGED endpoint
    /\ UNCHANGED <<thread, node, full_data, backend, dev, data, delay, env,
                   claimed, readOk, prevData, cleanupCalls>>
    /\ UNCHANGED <<callVars, backendLogged, everFound, attemptVars>>

\* is_kernel_driver_active and detach_kernel_driver; failures are only logged
ReconnectKernelDriver ==
    /\ thread = "alive"
    /\ pc = "re_kernel"
    /\ \E active \in {"True", "False", "raise"}, detach \in AnyOutcome :
        /\ pc' = "re_claim"
        /\ attempt' = [attempt EXCEPT !.failed =
                IF active = "raise" THEN @ \cup {"check"}
                ELSE IF active = "True" /\ detach = "raise"
                THEN @ \cup {"detach"}
                ELSE @]
    /\ UNCHANGED <<thread, ret, idx, node, full_data, backend, dev, endpoint,
                   data, delay, env, claimed, lastEvent, readOk, prevData,
                   cleanupCalls>>
    /\ UNCHANGED <<callVars, histVars, cleanup>>

\* claim_interface of the reconnect branch; a failure starts a fault path
ReconnectClaim ==
    /\ thread = "alive"
    /\ pc = "re_claim"
    /\ \E o \in StepOutcomes :
        IF o = "ok"
        THEN /\ claimed' = TRUE
             /\ pc' = "re_connected"
             /\ UNCHANGED <<ret, idx, lastEvent, sleeps>>
        ELSE /\ EnterFault(Ev("claim", "Exception", -1))
             /\ UNCHANGED claimed
    /\ UNCHANGED <<thread, node, full_data, backend, dev, endpoint, data,
                   delay, env, readOk, prevData, cleanupCalls>>
    /\ UNCHANGED <<callVars, backendLogged, everFound, attemptVars>>

\* Reconnected as it would be if the reconnect branch did not set the flag
ReconnectedWithoutFlag ==
    /\ thread = "alive"
    /\ pc = "re_connected"
    /\ node' = node
    /\ pc' = "loop"
    /\ readOk' = FALSE
    /\ UNCHANGED <<thread, ret, idx, full_data, backend, dev, endpoint, data,
                   delay, env, claimed, lastEvent, prevData, cleanupCalls>>
    /\ UNCHANGED <<callVars, histVars, attemptVars>>

\* self.controller_connected.set_bool8(True); continue
Reconnected ==
    /\ thread = "alive"
    /\ pc = "re_connected"
    /\ node' = [node EXCEPT !["controller_connected"] = TRUE]
    /\ pc' = "loop"
    /\ readOk' = FALSE
    /\ UNCHANGED <<thread, ret, idx, full_data, backend, dev, endpoint, data,
                   delay, env, claimed, lastEvent, prevData, cleanupCalls>>
    /\ UNCHANGED <<callVars, histVars, attemptVars>>

----------------------------------------------------------------------------
(* The endless loop: read and decode (dev is not None) *)

\* reports dev.read can return in the current environment mode
ReadableReports == IF env = "healthy" THEN {r \in Reports : WellFormed(r)} ELSE Reports

\* exceptions the read statement can raise: without an endpoint the attribute
\* access on None raises before any USB call is made
RaisableFaults ==
    IF endpoint = "None" THEN {[type |-> "Exception", errno |-> -1]}
    ELSE IF env = "healthy" THEN {}
    ELSE ReadFaults

\* dev.read returns a report and the raw report is stored for visualization
ReadDataStoresRaw ==
    /\ thread = "alive"
    /\ pc = "loop"
    /\ dev # "None"
    /\ endpoint # "None"
    /\ \E r \in ReadableReports : data' = r
    /\ full_data' = "raw report"
    /\ prevData' = IF readOk THEN data ELSE <<>>
    /\ lastEvent' = Ev("read", "data", -1)
    /\ readOk' = TRUE
    /\ pc' = "reset"
    /\ idx' = 1
    /\ UNCHANGED <<thread, ret, node, backend, dev, endpoint, delay,
                   env, claimed, cleanupCalls>>
    /\ attempt' = NoAttempt
    /\ UNCHANGED <<callVars, histVars, cleanup>>

\* dev.read returns a report.  At the head of the loop with a handle, a report
\* read earlier on this connection has been decoded completely (every fault
\* drops the handle), which is what prevData records.
ReadData ==
    /\ thread = "alive"
    /\ pc = "loop"
    /\ dev # "None"
    /\ endpoint # "None"
    /\ \E r \in ReadableReports : data' = r
    /\ prevData' = IF readOk THEN data ELSE <<>>
    /\ lastEvent' = Ev("read", "data", -1)
    /\ readOk' = TRUE
    /\ pc' = "reset"
    /\ idx' = 1
    /\ UNCHANGED <<thread, ret, node, full_data, backend, dev, endpoint, delay,
                   env, claimed, cleanupCalls>>
    /\ attempt' = NoAttempt
    /\ UNCHANGED <<callVars, histVars, cleanup>>

\* the read statement raises e: a timeout continues, anything else starts a
\* fault path
ReadRaise ==
    /\ thread = "alive"
    /\ pc = "loop"
    /\ dev # "None"
    /\ \E e \in RaisableFaults :
        IF Classify(e) = "timeout"
        THEN /\ lastEvent' = Raised("read", e)
             /\ UNCHANGED <<pc, ret, idx, sleeps>>
        ELSE EnterFault(Raised("read", e))
    /\ UNCHANGED <<thread, node, full_data, backend, dev, endpoint, data, delay,
                   env, claimed, readOk, prevData, cleanupCalls>>
    /\ attempt' = NoAttempt
    /\ UNCHANGED <<callVars, backendLogged, everFound, cleanup>>

\* one of the twelve set_bool8(False) before the decode
ResetButton ==
    /\ thread = "alive"
    /\ pc = "reset"
    /\ node' = ResetStep(node, idx)
    /\ IF idx = Len(ResetOrder)
       THEN pc' = "buttons" /\ idx' = 1
       ELSE pc' = pc /\ idx' = idx + 1
    /\ UNCHANGED <<thread, ret, full_data, backend, dev, endpoint, data, delay,
                   env, claimed, lastEvent, readOk, prevData, cleanupCalls>>
    /\ UNCHANGED <<callVars, histVars, attemptVars>>

\* one bit test of the decode; an index past the end of the report raises
\* IndexError, caught by "except Exception"
DecodeButton ==
    /\ thread = "alive"
    /\ pc = "buttons"
    /\ IF HasIndex(data, ButtonTable[idx].off)
       THEN /\ node' = ButtonStep(node, data, idx)
            /\ IF idx = Len(ButtonTable)
               THEN pc' = "axes" /\ idx' = 1
               ELSE pc' = pc /\ idx' = idx + 1
            /\ UNCHANGED <<ret, lastEvent, sleeps>>
       ELSE /\ EnterFault(Raised("decode", [type |-> "Exception", errno |-> -1]))
            /\ UNCHANGED node
    /\ UNCHANGED <<thread, full_data, backend, dev, endpoint, data, delay, env,
                   claimed, readOk, prevData, cleanupCalls>>
    /\ UNCHANGED <<callVars, backendLogged, everFound, attemptVars>>

\* DecodeAxis as it would be if the IndexError of a short report were caught
\* by no handler
DecodeAxisUncaught ==
    /\ thread = "alive"
    /\ pc = "axes"
    /\ IF HasIndex(data, AxisTable[idx].off)
       THEN /\ node' = AxisStep(node, data, idx)
            /\ IF idx = Len(AxisTable)
               THEN pc' = "loop" /\ idx' = 0
               ELSE pc' = pc /\ idx' = idx + 1
            /\ UNCHANGED <<thread, lastEvent, sleeps>>
       ELSE /\ lastEvent' = Raised("decode", [type |-> "Exception", errno |-> -1])
            /\ thread' = "dead"
            /\ pc' = "raised"
            /\ UNCHANGED <<node, idx, sleeps>>
    /\ UNCHANGED <<ret, full_data, backend, dev, endpoint, data, delay, env,
                   claimed, readOk, prevData, cleanupCalls>>
    /\ UNCHANGED <<callVars, backendLogged, everFound, attemptVars>>

\* one axis decode; after the last one the iteration is complete
DecodeAxis ==
    /\ thread = "alive"
    /\ pc = "axes"
    /\ IF HasIndex(data, AxisTable[idx].off)
       THEN /\ node' = AxisStep(node, data, idx)
            /\ IF idx = Len(AxisTable)
               THEN pc' = "loop" /\ idx' = 0
               ELSE pc' = pc /\ idx' = idx + 1
            /\ UNCHANGED <<ret, lastEvent, sleeps>>
       ELSE /\ EnterFault(Raised("decode", [type |-> "Exception", errno |-> -1]))
            /\ UNCHANGED node
    /\ UNCHANGED <<thread, full_data, backend, dev, endpoint, data, delay, env,
                   claimed, readOk, prevData, cleanupCalls>>
    /\ UNCHANGED <<callVars, backendLogged, everFound, attemptVars>>

----------------------------------------------------------------------------
(* The fault paths after _set_safe_state *)

\* CleanupUsb as it would be if a failure of release_interface were not caught:
\* dispose_resources is not called and the exception ends the thread
CleanupUsbReleaseUncaught ==
    /\ pc = "cleanup"
    /\ \E rel \in AnyOutcome, disp \in AnyOutcome :
        IF rel = "ok"
        THEN /\ claimed' = FALSE
             /\ cleanup' = [release |-> rel, dispose |-> disp]
             /\ pc' = "drop"
             /\ thread' = "alive"
        ELSE /\ claimed' = claimed
             /\ cleanup' = [release |-> rel, dispose |-> "none"]
             /\ pc' = "raised"
             /\ thread' = "dead"
    /\ thread = "alive"
    /\ cleanupCalls' = cleanupCalls + 1
    /\ UNCHANGED <<ret, idx, node, full_data, backend, dev, endpoint,
                   data, delay, env, lastEvent, readOk, prevData>>
    /\ UNCHANGED <<callVars, histVars, attempt>>

\* _cleanup_usb: release_interface and dispose_resources, every failure
\* swallowed
CleanupUsb ==
    /\ thread = "alive"
    /\ pc = "cleanup"
    /\ \E rel \in AnyOutcome, disp \in AnyOutcome :
        /\ claimed' = IF rel = "ok" THEN FALSE ELSE claimed
        /\ cleanup' = [release |-> rel, dispose |-> disp]
    /\ cleanupCalls' = cleanupCalls + 1
    /\ pc' = "drop"
    /\ UNCHANGED <<thread, ret, idx, node, full_data, backend, dev, endpoint,
                   data, delay, env, lastEvent, readOk, prevData>>
    /\ UNCHANGED <<callVars, histVars, attempt>>

\* DropHandle as it would be if the fault path continued without time.sleep
DropHandleNoSleep ==
    /\ thread = "alive"
    /\ pc = "drop"
    /\ dev' = "None"
    /\ endpoint' = "None"
    /\ claimed' = FALSE
    /\ pc' = "loop"
    /\ delay' = 0
    /\ UNCHANGED <<thread, ret, idx, node, full_data, backend, data, env,
                   lastEvent, readOk, prevData, cleanupCalls>>
    /\ UNCHANGED <<callVars, histVars, attemptVars>>

\* DropHandle as it would be if the fault path did not set dev to None
DropHandleKeepsHandle ==
    /\ thread = "alive"
    /\ pc = "drop"
    /\ dev' = dev
    /\ endpoint' = endpoint
    /\ claimed' = claimed
    /\ pc' = "sleep"
    /\ delay' = ShortDelay
    /\ UNCHANGED <<thread, ret, idx, node, full_data, backend, data, env,
                   lastEvent, readOk, prevData, cleanupCalls>>
    /\ UNCHANGED <<callVars, histVars, attemptVars>>

\* dev = None; endpoint = None; time.sleep(0.2); continue
DropHandle ==
    /\ thread = "alive"
    /\ pc = "drop"
    /\ dev' = "None"
    /\ endpoint' = "None"
    /\ claimed' = FALSE
    /\ pc' = "sleep"
    /\ delay' = ShortDelay
    /\ UNCHANGED <<thread, ret, idx, node, full_data, backend, data, env,
                   lastEvent, readOk, prevData, cleanupCalls>>
    /\ UNCHANGED <<callVars, histVars, attemptVars>>

----------------------------------------------------------------------------
(* The environment *)

\* the device, its cabling and the USB stack change behaviour
SetEnv ==
    /\ \E m \in {"chaos", "acquirable", "healthy"} \ {env} : env' = m
    /\ UNCHANGED <<thread, pc, ret, idx, node, full_data, backend, dev,
                   endpoint, data, delay, claimed, lastEvent, readOk, prevData,
                   cleanupCalls>>
    /\ UNCHANGED <<callVars, histVars, attemptVars>>

----------------------------------------------------------------------------
(* Specifications *)

\* a step of the poll thread
PollStep ==
    \/ SafeStateStep
    \/ GetBackend
    \/ ReturnNoBackend
    \/ InitialFind
    \/ Sleep
    \/ InitialEndpoint
    \/ InitialReset
    \/ InitialKernelDriver
    \/ InitialClaim
    \/ InitialConnected
    \/ ReconnectFind
    \/ ReconnectReset
    \/ ReconnectEndpoint
    \/ ReconnectKernelDriver
    \/ ReconnectClaim
    \/ Reconnected
    \/ ReadData
    \/ ReadRaise
    \/ ResetButton
    \/ DecodeButton
    \/ DecodeAxis
    \/ CleanupUsb
    \/ DropHandle

Next ==
    \/ StartReadingThreaded
    \/ PollStep
    \/ SetEnv

Spec == Init /\ [][Next]_vars

\* the operating system schedules the poll thread, and every sleep and every
\* USB call with a timeout returns
FairSpec == Init /\ [][Next]_vars /\ WF_vars(PollStep)

----------------------------------------------------------------------------
(* The decode as a function of the report: one decode pass taken as a whole, *)
(* over all values of every byte of the report                               *)

\* report r with the byte at offset off replaced by v
Vary(r, off, v) == [r EXCEPT ![off + 1] = v]

\* report r followed by k more bytes
Pad(r, k) == r \o [i \in 1..k |-> 255]

\* the reports every byte of which is varied
BaseReports == {SampleReports[1], SampleReports[2], SampleReports[3]}

\* the reports of DecodeSpec: 13 to 13 + MaxExtra bytes
DecodeInputs ==
    {Pad(Vary(r, off, v), k) :
        r \in BaseReports, off \in 0..12, v \in 0..255, k \in 0..MaxExtra}

\* the reports whose decode can be published when the pass begins (<<>>: none
\* since the connection)
PriorReports == {<<>>, SampleReports[1], SampleReports[2]}

\* the published state the loop has reached when it reads the next report
PriorNode(r) ==
    LET n == [InitNode EXCEPT !["controller_connected"] = TRUE] IN
    IF r = <<>> THEN n ELSE DecodeReport(n, r)

DecodeInit ==
    /\ CallInit
    /\ backendLogged = 0
    /\ everFound = TRUE
    /\ sleeps = 0
    /\ attempt = NoAttempt
    /\ cleanup = NoCleanup
    /\ thread = "alive"
    /\ pc = "reset"
    /\ ret = "none"
    /\ idx = 1
    /\ prevData \in PriorReports
    /\ node = PriorNode(prevData)
    /\ full_data = "No data available"
    /\ backend = "ok"
    /\ dev = "c21f"
    /\ endpoint = "ep"
    /\ data \in DecodeInputs
    /\ delay = 0
    /\ env = "healthy"
    /\ claimed = TRUE
    /\ lastEvent = Ev("read", "data", -1)
    /\ readOk = TRUE
    /\ cleanupCalls = 0

\* the statements from the first reset to the last axis write, for a report
\* of at least 13 bytes
DecodePass ==
    /\ thread = "alive"
    /\ pc = "reset"
    /\ idx = 1
    /\ WellFormed(data)
    /\ node' = DecodeReport(node, data)
    /\ pc' = "loop"
    /\ idx' = 0
    /\ UNCHANGED <<thread, ret, full_data, backend, dev, endpoint, data, delay,
                   env, claimed, lastEvent, readOk, prevData, cleanupCalls>>
    /\ UNCHANGED <<callVars, histVars, attemptVars>>

DecodeNext == DecodePass

DecodeSpec == DecodeInit /\ [][DecodeNext]_vars

----------------------------------------------------------------------------
(* The Data Layer callbacks on_read and on_write.  They run on the thread   *)
(* of the Data Layer provider, at any moment of the poll loop.              *)

\* values of the constructor argument addressRoot
SampleRoots == {"fts-gaming", "hid/a-button"}

\* the names register_nodes appends to addressRoot + "/"
RegisteredNames ==
    <<"controller-connected", "full-data",
      "left-button", "right-button", "left-button-bottom",
      "right-button-bottom",
      "b-button", "y-button", "x-button", "a-button",
      "up-cross-button", "down-cross-button", "left-cross-button",
      "right-cross-button",
      "Left-Joystick-X", "Left-Joystick-Y", "Right-Joystick-X",
      "Right-Joystick-Y">>

\* self.addressRoot + name
Address(root, name) == (root \o "/") \o name

\* the addresses registered for the first root, one address of another root,
\* and addresses that are not registered
RegisteredAddresses ==
    {Address("fts-gaming", RegisteredNames[i]) : i \in 1..Len(RegisteredNames)}
        \cup {Address("hid/a-button", "x-button"),
              Address("hid/a-button", "up-cross-button")}

UnregisteredAddresses ==
    {Address("fts-gaming", "unknown"), Address("fts-gaming", "a-button/x"), ""}

ReadAddresses == RegisteredAddresses \cup UnregisteredAddresses

\* EndsWith as it would be if the test were "t in s"
EndsWithContains(s, t) ==
    \E k \in 1..Len(s) :
        /\ k + Len(t) - 1 <= Len(s)
        /\ SubSeq(s, k, k + Len(t) - 1) = t

\* str.endswith
EndsWith(s, t) ==
    /\ Len(s) >= Len(t)
    /\ SubSeq(s, Len(s) - Len(t) + 1, Len(s)) = t

\* ReadTable as it would be if the b-button test answered with a_button
ReadTableCopyPaste ==
    << [suffix |-> "controller-connected", f |-> "controller_connected"],
       [suffix |-> "full-data",            f |-> "full_data"],
       [suffix |-> "left-button",          f |-> "left_button"],
       [suffix |-> "right-button",         f |-> "right_button"],
       [suffix |-> "left-button-bottom",   f |-> "left_button_bottom"],
       [suffix |-> "right-button-bottom",  f |-> "right_button_bottom"],
       [suffix |-> "b-button",             f |-> "a_button"],
       [suffix |-> "y-button",             f |-> "y_button"],
       [suffix |-> "x-button",             f |-> "x_button"],
       [suffix |-> "a-button",             f |-> "a_button"],
       [suffix |-> "up-cross-button",      f |-> "up_cross_button"],
       [suffix |-> "down-cross-button",    f |-> "down_cross_button"],
       [suffix |-> "left-cross-button",    f |-> "left_cross_button"],
       [suffix |-> "right-cross-button",   f |-> "right_cross_button"],
       [suffix |-> "Left-Joystick-X",      f |-> "l_joystick_x"],
       [suffix |-> "Left-Joystick-Y",      f |-> "l_joystick_y"],
       [suffix |-> "Right-Joystick-X",     f |-> "r_joystick_x"],
       [suffix |-> "Right-Joystick-Y",     f |-> "r_joystick_y"] >>

\* the suffix tests of __on_read, in program order: suffix, variant answered
ReadTable ==
    << [suffix |-> "controller-connected", f |-> "controller_connected"],
       [suffix |-> "full-data",            f |-> "full_data"],
       [suffix |-> "left-button",          f |-> "left_button"],
       [suffix |-> "right-button",         f |-> "right_button"],
       [suffix |-> "left-button-bottom",   f |-> "left_button_bottom"],
       [suffix |-> "right-button-bottom",  f |-> "right_button_bottom"],
       [suffix |-> "b-button",             f |-> "b_button"],
       [suffix |-> "y-button",             f |-> "y_button"],
       [suffix |-> "x-button",             f |-> "x_button"],
       [suffix |-> "a-button",             f |-> "a_button"],
       [suffix |-> "up-cross-button",      f |-> "up_cross_button"],
       [suffix |-> "down-cross-button",    f |-> "down_cross_button"],
       [suffix |-> "left-cross-button",    f |-> "left_cross_button"],
       [suffix |-> "right-cross-button",   f |-> "right_cross_button"],
       [suffix |-> "Left-Joystick-X",      f |-> "l_joystick_x"],
       [suffix |-> "Left-Joystick-Y",      f |-> "l_joystick_y"],
       [suffix |-> "Right-Joystick-X",     f |-> "r_joystick_x"],
       [suffix |-> "Right-Joystick-Y",     f |-> "r_joystick_y"] >>

\* index of the first suffix test, from the i-th on, that the address passes
\* (0: none)
RECURSIVE Route(_, _)
Route(address, i) ==
    IF i > Len(ReadTable) THEN 0
    ELSE IF EndsWith(address, ReadTable[i].suffix) THEN i
    ELSE Route(address, i + 1)

\* the value of the variant self.<f> at this moment
VariantValue(f) == IF f = "full_data" THEN full_data ELSE node[f]

\* what __on_read passes to cb for an address: result and value
OnReadReply(address) ==
    LET i == Route(address, 1) IN
    IF i = 0
    THEN [result |-> "INVALID_ADDRESS", value |-> "None"]
    ELSE [result |-> "OK", value |-> VariantValue(ReadTable[i].f)]

\* types of the payload of a write request
VariantTypes == {"STRING", "BOOL8", "FLOAT32", "UNKNOWN"}

WriteAddresses ==
    {Address("fts-gaming", "left-button"),
     Address("fts-gaming", "Left-Joystick-X"),
     Address("fts-gaming", "full-data"),
     Address("fts-gaming", "unknown")}

\* OnWriteResult as it would be if the type check were left out
OnWriteResultNoTypeCheck(address, type) == "INVALID_ADDRESS"

\* the result __on_write passes to cb
OnWriteResult(address, type) ==
    IF type # "STRING" THEN "TYPE_MISMATCH" ELSE "INVALID_ADDRESS"

\* __on_read called with an address
OnRead ==
    /\ \E a \in ReadAddresses :
        LET r == OnReadReply(a) IN
        reply' = [op |-> "read", address |-> a, payload |-> "None",
                  result |-> r.result, value |-> r.value]
    /\ UNCHANGED <<thread, pc, ret, idx, node, full_data, backend, dev, endpoint,
                   data, delay, env, claimed, lastEvent, readOk, prevData,
                   cleanupCalls, histVars, attemptVars, callPc, threads,
                   reader_thread>>

\* __on_write called with an address and a payload
OnWrite ==
    /\ \E a \in WriteAddresses, t \in VariantTypes :
        reply' = [op |-> "write", address |-> a, payload |-> t,
                  result |-> OnWriteResult(a, t), value |-> "None"]
    /\ UNCHANGED <<thread, pc, ret, idx, node, full_data, backend, dev, endpoint,
                   data, delay, env, claimed, lastEvent, readOk, prevData,
                   cleanupCalls, histVars, attemptVars, callPc, threads,
                   reader_thread>>

\* the connection is established and the environment healthy: the state after
\* the initial connect
CallbackInit ==
    /\ CallInit
    /\ backendLogged = 0
    /\ everFound = TRUE
    /\ sleeps = 0
    /\ attempt = NoAttempt
    /\ cleanup = NoCleanup
    /\ thread = "alive"
    /\ pc = "loop"
    /\ ret = "none"
    /\ idx = 0
    /\ node = [InitNode EXCEPT !["controller_connected"] = TRUE]
    /\ full_data = "No data available"
    /\ backend = "ok"
    /\ dev = "c21f"
    /\ endpoint = "ep"
    /\ data = <<>>
    /\ delay = 0
    /\ env = "healthy"
    /\ claimed = TRUE
    /\ lastEvent = Ev("find", "found", -1)
    /\ readOk = FALSE
    /\ prevData = <<>>
    /\ cleanupCalls = 0

\* the callbacks interleaved with the read and decode steps of the poll loop
CallbackNext ==
    \/ ReadData
    \/ ResetButton
    \/ DecodeButton
    \/ DecodeAxis
    \/ OnRead
    \/ OnWrite

CallbackSpec == CallbackInit /\ [][CallbackNext]_vars

----------------------------------------------------------------------------
(* start_reading_threaded called by several threads at once.  In Spec the   *)
(* calls do not overlap (StartReadingThreaded is one step); here each       *)
(* statement of a call is a step, and a started thread is alive until its   *)
(* start_reading returns or raises.                                         *)

\* Thread.is_alive()
IsAlive(t) == threads[t] = "alive"

\* the Thread object the next threading.Thread(...) creates
NewThread ==
    CHOOSE t \in ThreadIds :
        /\ threads[t] = "unborn"
        /\ \A u \in ThreadIds : threads[u] = "unborn" => t <= u

\* the variables of the poll loop, which the callers do not touch
pollVars ==
    <<thread, pc, ret, idx, node, full_data, backend, dev, endpoint, data,
      delay, env, claimed, lastEvent, readOk, prevData, cleanupCalls,
      histVars, attemptVars, reply>>

\* line 224: the test "is None or not is_alive()"
CallCheck(c) ==
    /\ callPc[c] = "idle"
    /\ callPc' = [callPc EXCEPT ![c] =
            IF reader_thread = 0 \/ ~IsAlive(reader_thread)
            THEN "create" ELSE "done"]
    /\ UNCHANGED <<pollVars, threads, reader_thread>>

\* line 225: self._reader_thread = threading.Thread(...)
CallCreate(c) ==
    /\ callPc[c] = "create"
    /\ \E t \in ThreadIds : threads[t] = "unborn"
    /\ threads' = [threads EXCEPT ![NewThread] = "created"]
    /\ reader_thread' = NewThread
    /\ callPc' = [callPc EXCEPT ![c] = "start"]
    /\ UNCHANGED pollVars

\* line 226: self._reader_thread.start(); starting a thread a second time
\* raises RuntimeError in the caller
CallStart(c) ==
    /\ callPc[c] = "start"
    /\ IF threads[reader_thread] = "created"
       THEN /\ threads' = [threads EXCEPT ![reader_thread] = "alive"]
            /\ callPc' = [callPc EXCEPT ![c] = "done"]
       ELSE /\ callPc' = [callPc EXCEPT ![c] = "raised"]
            /\ UNCHANGED threads
    /\ UNCHANGED <<pollVars, reader_thread>>

\* the caller calls start_reading_threaded again
CallAgain(c) ==
    /\ callPc[c] \in {"done", "raised"}
    /\ \E t \in ThreadIds : threads[t] = "unborn"
    /\ callPc' = [callPc EXCEPT ![c] = "idle"]
    /\ UNCHANGED <<pollVars, threads, reader_thread>>

\* start_reading returns (no backend) or raises (usb.core.find): the thread
\* ends
ThreadExit(t) ==
    /\ threads[t] = "alive"
    /\ threads' = [threads EXCEPT ![t] = "dead"]
    /\ UNCHANGED <<pollVars, callPc, reader_thread>>

StartNext ==
    \/ \E c \in Callers : CallCheck(c)
    \/ \E c \in Callers : CallCreate(c)
    \/ \E c \in Callers : CallStart(c)
    \/ \E c \in Callers : CallAgain(c)
    \/ \E t \in ThreadIds : ThreadExit(t)

StartSpec == Init /\ [][StartNext]_vars

----------------------------------------------------------------------------
(* Vocabulary of the properties *)

connected == node["controller_connected"]

\* the sixteen button and axis variants
Published(n) == [f \in Buttons \cup Axes |-> n[f]]

AllNeutral == \A f \in Buttons \cup Axes : node[f] = Neutral(f)

\* bit k of byte b, by arithmetic
Bit(b, k) == (b \div (2 ^ k)) % 2 = 1

\* the documented meaning of the bytes of report d, button by button
Documented(d) ==
    [f \in Buttons |->
        CASE f = "left_button"         -> Bit(Byte(d, 3), 0)
          [] f = "right_button"        -> Bit(Byte(d, 3), 1)
          [] f = "a_button"            -> Bit(Byte(d, 3), 4)
          [] f = "b_button"            -> Bit(Byte(d, 3), 5)
          [] f = "x_button"            -> Bit(Byte(d, 3), 6)
          [] f = "y_button"            -> Bit(Byte(d, 3), 7)
          [] f = "left_button_bottom"  -> \E k \in {0, 1, 2, 3, 4} : Bit(Byte(d, 4), k)
          [] f = "right_button_bottom" -> \E k \in {0, 2, 3, 4} : Bit(Byte(d, 5), k)
          [] f = "up_cross_button"     -> Bit(Byte(d, 2), 0)
          [] f = "down_cross_button"   -> Bit(Byte(d, 2), 1)
          [] f = "left_cross_button"   -> Bit(Byte(d, 2), 2)
          [] f = "right_cross_button"  -> Bit(Byte(d, 2), 3)]

\* a decode pass over data has just been completed (any later outcome
\* replaces lastEvent, and a read that returns leaves the head of the loop)
Decoded == pc = "loop" /\ lastEvent = Ev("read", "data", -1)

\* the read that failed last raised a USBError with a disconnect errno
DisconnectFault ==
    /\ lastEvent.op = "read"
    /\ lastEvent.out = "USBError"
    /\ lastEvent.errno \in {19, 5}

\* the read that failed last raised a USBError with the timeout errno
TimeoutFault ==
    /\ lastEvent.op = "read"
    /\ lastEvent.out = "USBError"
    /\ lastEvent.errno = 110

\* the fault path has run to its end: the loop sleeps before, or is at, the
\* head of its next iteration
Handled == thread = "alive" /\ pc \in {"sleep", "loop"}

----------------------------------------------------------------------------
(* C1 *)

\* C1: once the backend has been resolved, start_reading never returns and
\* never lets an exception escape, whatever the USB operations do.
C1_NeverLeavesLoop == backend = "ok" => pc \notin {"raised", "returned"}

----------------------------------------------------------------------------
(* C2 *)

\* C2: after a read failed with a disconnect fault (errno 19 or 5) and the loop
\* has handled it, controller-connected is false, every button is false and
\* every axis 0.0, the handle was released once and dropped, and the loop is in
\* its reconnect phase, whatever was published before.
C2_DisconnectGoesSafe ==
    (Handled /\ DisconnectFault) =>
        /\ connected = FALSE
        /\ AllNeutral
        /\ cleanupCalls = 1
        /\ dev = "None"
        /\ endpoint = "None"
        /\ (pc = "sleep" => delay = ShortDelay)

C2_Witness ==
    /\ Handled /\ DisconnectFault
    /\ pc = "loop"
    /\ data = SampleReports[2]
    /\ readOk
    /\ lastEvent.errno = 5
    /\ AllNeutral

----------------------------------------------------------------------------
(* C3 *)

\* the published states a reader may see whole: the neutral one, and the
\* decode of a report the loop has read
WholeStates ==
    {Published(InitNode)} \cup
    {Published(DecodeReport(InitNode, r)) :
        r \in {q \in {prevData, data} : WellFormed(q)}}

\* C3: a reader never observes a partially updated state: while the poll
\* thread runs, the sixteen button and axis variants together are the neutral
\* state or the decode of one single report; and a button whose bit is set in
\* two consecutive reports never reads false between them.  (Stated for the
\* runs in which every report read so far had at least 13 bytes.)
C3_NoPartialState ==
    (thread = "alive" /\ (data = <<>> \/ WellFormed(data))) =>
        /\ Published(node) \in WholeStates
        /\ \A f \in Buttons :
            ( /\ pc \in {"reset", "buttons", "axes"}
              /\ WellFormed(prevData) /\ WellFormed(data)
              /\ Documented(prevData)[f] /\ Documented(data)[f] )
            => node[f] = TRUE

----------------------------------------------------------------------------
(* C4 *)

\* C4: a read that times out (errno 110) changes no variant, keeps the handle
\* and the endpoint, releases nothing, and leaves the loop at the head of the
\* next iteration without a sleep.
C4_TimeoutChangesNothing ==
    [][ (lastEvent' # lastEvent /\ TimeoutFault') =>
            /\ node' = node
            /\ full_data' = full_data
            /\ dev' = dev /\ dev # "None"
            /\ endpoint' = endpoint
            /\ cleanupCalls' = cleanupCalls
            /\ pc = "loop" /\ pc' = "loop"
            /\ delay' = 0 ]_vars

C4_Witness ==
    /\ TimeoutFault
    /\ pc = "loop"
    /\ connected = TRUE
    /\ data = SampleReports[1]
    /\ node["b_button"] = TRUE
    /\ node["l_joystick_x"] = 64

----------------------------------------------------------------------------
(* C5 *)

\* C5: under fair scheduling of the poll loop, if from some point on the
\* backend is resolved, the device is always found and endpoint lookup and
\* claim succeed, then controller-connected becomes true again and again; and
\* if from some point on the reads also return well-formed reports, the
\* published state is, again and again, the decode of a report read on the
\* current connection.
C5_Recovers ==
    /\ <>[](backend = "ok" /\ Acquirable) => []<>(connected = TRUE)
    /\ <>[](backend = "ok" /\ env = "healthy") =>
           []<>( /\ connected = TRUE
                 /\ readOk
                 /\ Decoded
                 /\ Published(node) = Published(DecodeReport(InitNode, data)) )

----------------------------------------------------------------------------
(* C6 *)

\* C6 as stated: whenever controller-connected is true, a report has been
\* read successfully since the most recent acquisition of the device.
C6_ConnectedImpliesReportRead == connected = TRUE => readOk

\* C6 as amended: whenever controller-connected is true, the loop holds a
\* device handle on which no fault path has run; a report need not have been
\* read on it yet.
C6_ConnectedImpliesHandle ==
    connected = TRUE => (dev # "None" /\ cleanupCalls = 0)

C6_Witness ==
    /\ connected = TRUE
    /\ ~readOk
    /\ pc = "loop"
    /\ dev = "c219"
    /\ data # <<>>

----------------------------------------------------------------------------
(* C7 *)

\* C7: outside a running _set_safe_state, whenever controller-connected is
\* false every button is false and every axis 0.0; and after a reconnection the
\* buttons and axes stay neutral until the first report of the new connection
\* has been read and is being decoded.
C7_NeutralUntilFreshReport ==
    /\ (connected = FALSE /\ pc # "safe") => AllNeutral
    /\ (connected = TRUE /\ ~readOk) => AllNeutral

C7_Witness ==
    /\ connected = TRUE
    /\ ~readOk
    /\ pc = "loop"
    /\ data = SampleReports[2]
    /\ lastEvent = Ev("find", "found", -1)
    /\ cleanupCalls = 0
    /\ AllNeutral

----------------------------------------------------------------------------
(* C8 *)

\* the report of the scenario: offsets 2..12 fixed, offsets 0 and 1 free
Scenario(d) ==
    /\ Len(d) = 13
    /\ SubSeq(d, 3, 13) = <<0, 33, 0, 0, 192, 0, 64, 0, 128, 0, 128>>

ScenarioAxes ==
    /\ node["l_joystick_x"] = 64
    /\ node["l_joystick_y"] = -64
    /\ node["r_joystick_x"] = 0
    /\ node["r_joystick_y"] = 0

\* C8 as stated: the scenario report decodes to a-button and y-button true,
\* the other ten buttons false, left-X 0.5, left-Y -0.5, right-X and right-Y 0.0.
C8_ScenarioAY ==
    (Decoded /\ Scenario(data)) =>
        /\ \A f \in Buttons : node[f] = (f \in {"a_button", "y_button"})
        /\ ScenarioAxes

\* C8 as amended: the scenario report (byte 3 = 0x21: bits 0 and 5) decodes to
\* left-button and b-button true, the other ten buttons false, and the same
\* axes.
C8_ScenarioLeftB ==
    (Decoded /\ Scenario(data)) =>
        /\ \A f \in Buttons : node[f] = (f \in {"left_button", "b_button"})
        /\ ScenarioAxes

C8_Witness ==
    /\ Decoded /\ Scenario(data)
    /\ Byte(data, 0) = 0 /\ Byte(data, 1) = 77
    /\ prevData = SampleReports[2]
    /\ node["left_button"] = TRUE
    /\ node["b_button"] = TRUE

----------------------------------------------------------------------------
(* C9 *)

\* C9: after the decode of a report of at least 13 bytes every button equals
\* its documented bit test of bytes 2..5, and nothing else.
C9_ButtonsAreBitTests ==
    Decoded => \A f \in Buttons : node[f] = Documented(data)[f]

C9_Witness ==
    /\ Decoded
    /\ Byte(data, 2) = 15
    /\ Byte(data, 3) = 12
    /\ Byte(data, 5) = 29
    /\ \A f \in {"up_cross_button", "down_cross_button", "left_cross_button",
                 "right_cross_button", "right_button_bottom"} : node[f] = TRUE
    /\ \A f \in {"left_button", "right_button", "a_button", "b_button",
                 "x_button", "y_button"} : node[f] = FALSE

----------------------------------------------------------------------------
(* C10 *)

AllZero(d) == \A i \in 1..Len(d) : d[i] = 0

\* C10: the buttons and axes after a decode depend on the report alone: they
\* are the same from every prior state, no button is true unless the report
\* sets its bit, and an all-zero report leaves all twelve buttons false.
C10_DecodeDependsOnReportOnly ==
    Decoded =>
        /\ \A q \in PriorReports :
            Published(node) = Published(DecodeReport(PriorNode(q), data))
        /\ \A f \in Buttons : node[f] = TRUE => Documented(data)[f]
        /\ AllZero(data) => \A f \in Buttons : node[f] = FALSE

\* the decode of an all-zero report from the prior state in which every button
\* was true
C10_Witness ==
    /\ Decoded
    /\ AllZero(data)
    /\ data # <<>>
    /\ prevData = SampleReports[2]
    /\ \A f \in Buttons : node[f] = FALSE

----------------------------------------------------------------------------
(* C11 *)

\* the report offset documented for each axis
AxisOffset ==
    [l_joystick_x |-> 6, l_joystick_y |-> 8,
     r_joystick_x |-> 10, r_joystick_y |-> 12]

\* C11: after the decode of a report of at least 13 bytes each axis, in units
\* of 1/128, is its byte minus 128 (left-X offset 6, left-Y 8, right-X 10,
\* right-Y 12): byte 0 gives -128 (-1.0), byte 128 gives 0, byte 255 gives 127
\* (127/128); the value grows strictly with the byte and stays below 128
\* (+1.0); and the bytes at offsets 7, 9 and 11 influence no button and no axis.
C11_AxisDecode ==
    Decoded =>
        /\ \A f \in Axes :
            LET b == Byte(data, AxisOffset[f]) IN
            /\ node[f] = b - 128
            /\ node[f] >= -128 /\ node[f] < 128
            /\ b = 0 => node[f] = -128
            /\ b = 128 => node[f] = 0
            /\ b = 255 => node[f] = 127
            /\ b > 0 => AxisScaled(b - 1) < node[f]
            /\ b < 255 => AxisScaled(b + 1) > node[f]
        /\ \A off \in {7, 9, 11} :
            Published(node) =
                Published(DecodeReport(PriorNode(prevData), Vary(data, off, 0)))

C11_Witness ==
    /\ Decoded
    /\ Byte(data, 6) = 255 /\ node["l_joystick_x"] = 127
    /\ Byte(data, 8) = 0 /\ node["l_joystick_y"] = -128
    /\ Byte(data, 10) = 128 /\ node["r_joystick_x"] = 0
    /\ Byte(data, 11) = 200
    /\ node["r_joystick_y"] = -127

----------------------------------------------------------------------------
(* C12 *)

\* the decode of the report read last raised (an index beyond its end)
DecodeFault == lastEvent.op = "decode"

\* C12: a report shorter than 13 bytes is handled like a transport fault.  It
\* is never published as a complete decode; the exception its decode raises
\* leaves the thread alive and starts the fault path (_set_safe_state, then
\* _cleanup_usb); and once that path has run, controller-connected is false,
\* every button false and every axis 0.0, the handle was released once and
\* dropped, and the loop is in its reconnect phase after the short sleep.
C12_ShortReportIsFault ==
    /\ [](Decoded => WellFormed(data))
    /\ []((Handled /\ DecodeFault) =>
            /\ ~WellFormed(data)
            /\ connected = FALSE
            /\ AllNeutral
            /\ cleanupCalls = 1
            /\ dev = "None"
            /\ endpoint = "None"
            /\ (pc = "sleep" => delay = ShortDelay))
    /\ [][ (lastEvent' # lastEvent /\ DecodeFault') =>
             /\ ~WellFormed(data)
             /\ thread' = "alive"
             /\ pc' = "safe" /\ ret' = "cleanup" ]_vars

\* a 12-byte report, whose prefix set every button and three axes, was read
\* after a complete decode and has been handled
C12_Witness ==
    /\ Handled /\ DecodeFault
    /\ pc = "loop"
    /\ Len(data) = 12
    /\ prevData = SampleReports[1]
    /\ connected = FALSE
    /\ AllNeutral

----------------------------------------------------------------------------
(* C13 *)

\* the read that failed last raised neither a timeout nor a disconnect: a
\* USBError with another errno or with none, or an exception of another type
OtherFault ==
    /\ lastEvent.op = "read"
    /\ lastEvent.out \in {"USBError", "Exception"}
    /\ ~(lastEvent.out = "USBError" /\ lastEvent.errno \in {110, 19, 5})

\* C13: after a read failed with a fault that is neither a timeout nor a
\* disconnect and the loop has handled it, the effect is that of a disconnect:
\* controller-connected false, every button false and every axis 0.0, the
\* handle released once and dropped, the short sleep chosen, and the loop in
\* its reconnect phase.
C13_OtherFaultGoesSafe ==
    (Handled /\ OtherFault) =>
        /\ connected = FALSE
        /\ AllNeutral
        /\ cleanupCalls = 1
        /\ dev = "None"
        /\ endpoint = "None"
        /\ (pc = "sleep" => delay = ShortDelay)

\* a non-USB exception carrying errno 110, raised by the read after a decode
C13_Witness ==
    /\ Handled /\ OtherFault
    /\ lastEvent.out = "Exception"
    /\ lastEvent.errno = 110
    /\ pc = "sleep"
    /\ delay = ShortDelay
    /\ readOk
    /\ data = SampleReports[2]
    /\ AllNeutral

----------------------------------------------------------------------------
(* C18 *)

\* C18: controller-connected is true only after the endpoint lookup and the
\* interface claim on the device found last have both succeeded, on the
\* initial connect path as on the reconnect path.
C18_ConnectedOnlyAfterAcquisition ==
    connected = TRUE => (dev # "None" /\ endpoint # "None" /\ claimed)

----------------------------------------------------------------------------
(* C19 *)

\* the loop is on a fault path: in _set_safe_state called from an except
\* clause or from a failed reconnect step, in _cleanup_usb, or dropping the
\* handle
OnFaultPath == (pc = "safe" /\ ret = "cleanup") \/ pc \in {"cleanup", "drop"}

\* C19: on every fault path controller-connected is written false before any
\* button or axis is reset and before the handle is released: while the flag
\* still reads true on a fault path no write of the safe state has been made
\* and the next step changes no button and no axis, and _cleanup_usb and the
\* drop of the handle run only with the flag false.
C19_FlagFalseFirst ==
    /\ []((OnFaultPath /\ connected = TRUE) => (pc = "safe" /\ idx = 1))
    /\ [][ (OnFaultPath /\ connected = TRUE) =>
             /\ Published(node') = Published(node)
             /\ cleanupCalls' = cleanupCalls
             /\ dev' = dev
             /\ claimed' = claimed ]_vars

\* the flag already reads false while the fields of the last decode are still
\* published
C19_Witness ==
    /\ pc = "safe" /\ ret = "cleanup"
    /\ idx = 2
    /\ lastEvent.op = "read"
    /\ lastEvent.errno = 19
    /\ connected = FALSE
    /\ data = SampleReports[2]
    /\ node["left_button"] = TRUE
    /\ node["l_joystick_x"] = 127

----------------------------------------------------------------------------
(* C14 *)

\* the running or finished start_reading could not resolve the backend
NoBackend == backend = "None"

\* C14: when the backend cannot be resolved, then until start_reading_threaded
\* is called anew controller-connected stays false, every button false and
\* every axis 0.0, no device search and no read is made, start_reading only
\* runs _set_safe_state and returns, and "libusb backend not found" is logged
\* once, on return; after the return on_read still answers every registered
\* address with OK and the safe value.
C14_NoBackendParksDisconnected ==
    /\ [](NoBackend =>
            /\ connected = FALSE
            /\ AllNeutral
            /\ pc \in {"safe", "return", "returned"}
            /\ lastEvent.op = "none"
            /\ dev = "None"
            /\ ~everFound
            /\ backendLogged = IF pc = "returned" THEN 1 ELSE 0
            /\ pc = "returned" =>
                \A i \in 1..Len(RegisteredNames) :
                    LET r == OnReadReply(Address("fts-gaming", RegisteredNames[i]))
                    IN  /\ r.result = "OK"
                        /\ r.value = IF i = 1 THEN FALSE
                                      ELSE IF i = 2 THEN "No data available"
                                      ELSE IF i <= 14 THEN FALSE
                                      ELSE 0)
    /\ [][ NoBackend => (NoBackend' \/ (thread = "dead" /\ thread' = "alive")) ]_vars

C14_Witness ==
    /\ NoBackend
    /\ thread = "dead"
    /\ pc = "returned"
    /\ backendLogged = 1
    /\ connected = FALSE
    /\ AllNeutral

----------------------------------------------------------------------------
(* C15 *)

\* the step is an answer to a write request
WriteAnswered ==
    /\ reply'.op = "write"
    /\ \/ reply.op # "write"
       \/ reply.address # reply'.address
       \/ reply.payload # reply'.payload

\* C15: every write is rejected and changes nothing: the answer is
\* TYPE_MISMATCH when the payload is not a string and INVALID_ADDRESS when it
\* is, whatever the address, never OK; and the answering step leaves the
\* seventeen variants of node, full_data and the poll loop as they were, at
\* every position of the read and decode.
C15_WritesRejected ==
    /\ [](reply.op = "write" =>
            /\ reply.result # "OK"
            /\ reply.payload # "STRING" => reply.result = "TYPE_MISMATCH"
            /\ reply.payload = "STRING" => reply.result = "INVALID_ADDRESS")
    /\ [][ WriteAnswered =>
             /\ node' = node
             /\ full_data' = full_data
             /\ <<pc, idx, data, lastEvent>>' = <<pc, idx, data, lastEvent>> ]_vars

\* a boolean written to left-button while the decode is running and the
\* button reads true
C15_Witness ==
    /\ reply.op = "write"
    /\ reply.address = "fts-gaming/left-button"
    /\ reply.payload = "BOOL8"
    /\ reply.result = "TYPE_MISMATCH"
    /\ pc = "axes"
    /\ node["left_button"] = TRUE

----------------------------------------------------------------------------
(* C16 *)

\* the registered name of each button, each axis and the connected flag
NameOf ==
    [controller_connected |-> "controller-connected",
     left_button          |-> "left-button",
     right_button         |-> "right-button",
     left_button_bottom   |-> "left-button-bottom",
     right_button_bottom  |-> "right-button-bottom",
     a_button             |-> "a-button",
     b_button             |-> "b-button",
     x_button             |-> "x-button",
     y_button             |-> "y-button",
     up_cross_button      |-> "up-cross-button",
     down_cross_button    |-> "down-cross-button",
     left_cross_button    |-> "left-cross-button",
     right_cross_button   |-> "right-cross-button",
     l_joystick_x         |-> "Left-Joystick-X",
     l_joystick_y         |-> "Left-Joystick-Y",
     r_joystick_x         |-> "Right-Joystick-X",
     r_joystick_y         |-> "Right-Joystick-Y"]

\* the step is an answer to a read request
ReadAnswered ==
    /\ reply'.op = "read"
    /\ \/ reply.op # "read"
       \/ reply.address # reply'.address
       \/ reply.value # reply'.value

\* C16: a read answered after the poll loop has completely decoded a report
\* and before its next step returns, for each of the sixteen buttons and axes,
\* OK and the value the decode of that report gives the field, and for
\* controller-connected OK and true.
C16_ReadAfterDecode ==
    [][ (Decoded /\ ReadAnswered) =>
            \A f \in Buttons \cup Axes \cup {"controller_connected"} :
                reply'.address = Address("fts-gaming", NameOf[f]) =>
                    /\ reply'.result = "OK"
                    /\ reply'.value =
                         IF f = "controller_connected" THEN TRUE
                         ELSE DecodeReport(InitNode, data)[f] ]_vars

\* b-button read true after the decode of the report whose byte 3 is 0x21
C16_Witness ==
    /\ Decoded
    /\ data = SampleReports[1]
    /\ prevData = SampleReports[2]
    /\ reply.op = "read"
    /\ reply.address = "fts-gaming/b-button"
    /\ reply.result = "OK"
    /\ reply.value = TRUE
    /\ node["a_button"] = FALSE

----------------------------------------------------------------------------
(* C17 *)

\* the poll-loop threads that are alive
AliveThreads == {t \in ThreadIds : IsAlive(t)}

\* C17: whatever the sequence or interleaving of calls of
\* start_reading_threaded, at most one poll-loop thread is alive at any time.
C17_SingleWriter == Cardinality(AliveThreads) <= 1

----------------------------------------------------------------------------
(* C20 *)

\* the loop is about to search for the device
AttemptDue ==
    /\ thread = "alive"
    /\ pc = "init_find" \/ (pc = "loop" /\ dev = "None")

\* C20: the loop sleeps the long delay only after a failed search made while
\* no device has been found since start_reading began, and then always the
\* long one; once a device has been found every sleep is the short one; and
\* every search that follows a failed search or a fault (device absent,
\* endpoint or claim failure, disconnect, other fault) comes after exactly one
\* completed sleep.
C20_RetryDelays ==
    /\ delay = LongDelay =>
        /\ pc = "sleep"
        /\ ~everFound
        /\ lastEvent = Ev("find", "absent", -1)
    /\ pc = "sleep" =>
        /\ delay = IF everFound THEN ShortDelay ELSE LongDelay
        /\ sleeps = 0
    /\ (AttemptDue /\ lastEvent.op # "none") => sleeps = 1
    /\ everFound => pc # "init_find"

\* the search after a failed claim on the reconnect path: one short sleep was
\* made
C20_Witness ==
    /\ AttemptDue
    /\ pc = "loop"
    /\ everFound
    /\ lastEvent = Ev("claim", "Exception", -1)
    /\ sleeps = 1
    /\ delay = 0

----------------------------------------------------------------------------
(* C24 *)

\* the loop is at the head of an iteration of the endless loop
AtLoopHead == thread = "alive" /\ pc = "loop"

\* C24: at the head of every iteration of the endless loop the device handle
\* is None exactly when controller-connected is false: a report read is
\* attempted (dev is not None) only while the flag is true, and a device
\* search, in the initial loop as in the endless one, only while it is false.
C24_HandleIffConnected ==
    /\ AtLoopHead => ((dev = "None") <=> (connected = FALSE))
    /\ AttemptDue => connected = FALSE

\* the head of the iteration after a failed claim on the reconnect path that
\* followed a connection on which reports were decoded
C24_Witness ==
    /\ AtLoopHead
    /\ lastEvent = Ev("claim", "Exception", -1)
    /\ dev = "None"
    /\ connected = FALSE
    /\ prevData = SampleReports[3]

----------------------------------------------------------------------------
(* C25 *)

\* the loop reads from the handle or decodes a report read from it
Reading ==
    /\ thread = "alive"
    /\ dev # "None"
    /\ pc \in {"loop", "reset", "buttons", "axes"}

\* C25: the poll loop holds at most one handle at a time: a search is made,
\* and a handle obtained, only when dev is None; every handle the running
\* loop drops has had _cleanup_usb called on it exactly once, immediately
\* before; and no handle on which _cleanup_usb has run is read from.
C25_HandleDiscipline ==
    /\ [](cleanupCalls <= 1)
    /\ [](Reading => cleanupCalls = 0)
    /\ [][ (dev' # dev /\ dev' # "None") => (dev = "None" /\ AttemptDue) ]_vars
    /\ [][ (thread' = "alive" /\ dev # "None" /\ dev' = "None") =>
             /\ pc = "drop"
             /\ cleanupCalls = 1
             /\ cleanupCalls' = 1 ]_vars

\* the second handle of the run has been dropped after a disconnect; the
\* first one was dropped after a decode fault
C25_Witness ==
    /\ thread = "alive"
    /\ pc = "sleep"
    /\ dev = "None"
    /\ cleanupCalls = 1
    /\ DisconnectFault
    /\ ~readOk
    /\ Len(data) = 12

----------------------------------------------------------------------------
(* C26 *)

\* the field each registered name stands for
FieldOf(name) ==
    IF name = "full-data" THEN "full_data"
    ELSE CHOOSE f \in DOMAIN NameOf : NameOf[f] = name

\* the registered names as a set
Names == {RegisteredNames[i] : i \in 1..Len(RegisteredNames)}

\* root + "/" + name for every sample root and registered name, with the name
NamedAddresses ==
    {[address |-> Address(root, name), name |-> name] :
        root \in SampleRoots, name \in Names}

\* the first suffix test each such address passes is the one of its name
RoutesExactly ==
    \A e \in NamedAddresses :
        LET i == Route(e.address, 1) IN
        /\ i > 0
        /\ ReadTable[i].suffix = e.name
        /\ ReadTable[i].f = FieldOf(e.name)

\* the addresses read that end in none of the 18 names
EndingInNoName ==
    {a \in ReadAddresses :
        \A name \in Names :
            \/ Len(a) < Len(name)
            \/ SubSeq(a, Len(a) - Len(name) + 1, Len(a)) # name}

\* C26: read routing is unambiguous.  For each of the 18 registered names
\* and each root, the first suffix test that root + "/" + name passes is the
\* one of that name; a read of such an address answers OK with the value the
\* field of that name has at that moment; a read of an address that ends in
\* none of the 18 names answers INVALID_ADDRESS; and the answering step
\* changes no field.
C26_RoutingUnambiguous ==
    /\ []RoutesExactly
    /\ [][ ReadAnswered =>
             /\ node' = node
             /\ full_data' = full_data
             /\ \A e \in NamedAddresses :
                 reply'.address = e.address =>
                     /\ reply'.result = "OK"
                     /\ reply'.value =
                          IF e.name = "full-data" THEN full_data
                          ELSE node[FieldOf(e.name)]
             /\ reply'.address \in EndingInNoName =>
                     (reply'.result = "INVALID_ADDRESS" /\ reply'.value = "None")
           ]_vars

\* left-button-bottom read false while left-button is true, after the decode
\* of the report whose byte 3 is 0x21 and byte 4 is 0
C26_Witness ==
    /\ Decoded
    /\ data = SampleReports[1]
    /\ reply.op = "read"
    /\ reply.address = "fts-gaming/left-button-bottom"
    /\ reply.result = "OK"
    /\ reply.value = FALSE
    /\ node["left_button"] = TRUE
    /\ node["left_button_bottom"] = FALSE


AfterCleanup == thread = "alive" /\ cleanup # NoCleanup

\* C21: _cleanup_usb is best-effort.  Whatever release_interface and
\* dispose_resources do, the call makes both (cleanup records an outcome for
\* each), writes no variant, leaves the thread alive and returns to the fault
\* path; the fault path then drops the handle and sleeps the short delay, and
\* during that sleep there is no handle, no claim, every variant is neutral
\* and the flag is FALSE; after the sleep the loop goes on.
C21_CleanupBestEffort ==
    /\ [][ (thread = "alive" /\ pc = "cleanup" /\ pc' # pc) =>
             /\ thread' = "alive"
             /\ pc' = "drop"
             /\ cleanup'.release \in AnyOutcome
             /\ cleanup'.dispose \in AnyOutcome
             /\ node' = node
             /\ dev' = dev ]_vars
    /\ [][ (AfterCleanup /\ pc = "drop" /\ pc' # pc) =>
             /\ thread' = "alive"
             /\ pc' = "sleep"
             /\ delay' = ShortDelay
             /\ dev' = "None"
             /\ endpoint' = "None"
             /\ node' = node ]_vars
    /\ [](AfterCleanup => pc \in {"drop", "sleep"})
    /\ []((AfterCleanup /\ pc = "sleep") =>
             /\ dev = "None"
             /\ endpoint = "None"
             /\ ~claimed
             /\ AllNeutral
             /\ connected = FALSE
             /\ delay = ShortDelay)
    /\ [][ (AfterCleanup /\ pc = "sleep" /\ pc' # pc) =>
             (thread' = "alive" /\ pc' = "loop" /\ dev' = "None") ]_vars

\* a disconnect was handled although both release_interface and
\* dispose_resources raised: the loop sleeps the short delay without a handle
C21_Witness ==
    /\ AfterCleanup
    /\ pc = "sleep"
    /\ cleanup = [release |-> "raise", dispose |-> "raise"]
    /\ lastEvent = Ev("read", "USBError", 19)
    /\ dev = "None"
    /\ AllNeutral
    /\ delay = ShortDelay

\* the step that follows each of the steps whose failure is only logged
AfterBestEffort ==
    [init_reset |-> "init_kernel", init_kernel |-> "init_claim",
     re_reset |-> "re_endpoint", re_kernel |-> "re_claim"]

\* the poll thread is at a step whose failure is only logged
AtBestEffort == thread = "alive" /\ pc \in DOMAIN AfterBestEffort

\* the device the searches of the running attempt returned
Found == FindResult(attempt.present[1], attempt.present[2])

\* the attempt is over and the loop is about to read for the first time
FirstRead ==
    thread = "alive" /\ pc = "loop" /\ dev # "None" /\ attempt # NoAttempt

\* C22: a failure of dev.reset(), of is_kernel_driver_active or of
\* detach_kernel_driver does not end the acquisition.  In the initial and in
\* the reconnect path each of these steps, failed or not, keeps the thread
\* alive and the handle, writes no variant and goes on to the same next step;
\* the claim is made on the device the search returned, whatever failed
\* before; and when the claim has succeeded, the step after it sets
\* controller-connected TRUE and the loop reads from that device, whatever
\* failed before.
C22_BestEffortSteps ==
    /\ [][ (AtBestEffort /\ pc' # pc) =>
             /\ thread' = "alive"
             /\ pc' = AfterBestEffort[pc]
             /\ dev # "None"
             /\ dev' = dev
             /\ endpoint' = endpoint
             /\ node' = node
             /\ attempt'.failed \subseteq {"reset", "check", "detach"} ]_vars
    /\ []((thread = "alive" /\ pc \in {"init_claim", "re_claim"}) =>
             (dev # "None" /\ dev = Found))
    /\ [][ (thread = "alive" /\ pc \in {"init_connected", "re_connected"}
              /\ pc' # pc /\ claimed) =>
             /\ thread' = "alive"
             /\ pc' = "loop"
             /\ connected' = TRUE
             /\ dev' = dev
             /\ claimed'
             /\ attempt' = attempt ]_vars
    /\ []((FirstRead /\ claimed) =>
             /\ connected = TRUE
             /\ dev = Found
             /\ AllNeutral)

\* after a reconnect in which the reset and the kernel-driver check failed
\* and the claim succeeded, the loop is connected and about to read
C22_Witness ==
    /\ FirstRead
    /\ claimed
    /\ attempt.failed = {"reset", "check"}
    /\ connected = TRUE
    /\ dev = "c21f"
    /\ endpoint = "ep"
    /\ data = SampleReports[2]

\* both devices are absent in the running attempt
BothAbsent == attempt.present = <<"None", "None">>

\* C23: every search, initial or reconnect, asks for 046d:c21f first and for
\* 046d:c219 only when the first search returned nothing (one call is made
\* when the first search returns a device or raises, two otherwise); the
\* attempt ends in the sleep of an absent device exactly when both searches
\* returned nothing; whenever the wireless device is present, the wired one
\* present or not, it is the handle the attempt continues with; and the
\* wired device is used when it alone is present.
C23_SearchOrder ==
    /\ [](AttemptDue => attempt = NoAttempt)
    /\ [](attempt # NoAttempt =>
             /\ attempt.calls \in {1, 2}
             /\ attempt.calls = 2 <=> attempt.present[1] = "None")
    /\ [][ (AttemptDue /\ attempt' # attempt) =>
             /\ (pc' = "sleep") <=> BothAbsent'
             /\ BothAbsent' =>
                   (dev' = "None" /\ thread' = "alive" /\ attempt'.calls = 2)
             /\ attempt'.present[1] = "c21f" =>
                   /\ dev' = "c21f"
                   /\ attempt'.calls = 1
                   /\ pc' \in {"init_endpoint", "re_reset"}
             /\ attempt'.present = <<"None", "c219">> =>
                   /\ dev' = "c219"
                   /\ attempt'.calls = 2
                   /\ pc' \in {"init_endpoint", "re_reset"} ]_vars

\* a reconnect search made while both devices are present returned the
\* wireless one after a single call
C23_Witness ==
    /\ thread = "alive"
    /\ pc = "re_reset"
    /\ attempt.present = <<"c21f", "c219">>
    /\ attempt.calls = 1
    /\ dev = "c21f"
    /\ data = SampleReports[1]
====
